---- MODULE Spec2Model ----
(***************************************************************************)
(* Model of the vulnerability scanner service: the requirements parser,    *)
(* the OSV lookup, the scan loop, the create-application handler and the   *)
(* query handlers over the in-memory applications_db list.                 *)
(*                                                                         *)
(* Python strings that the parser takes apart (manifest text, package      *)
(* names, versions) are sequences of one-character strings.  Strings that  *)
(* are only stored and compared (application names, descriptions, error    *)
(* texts, vulnerability ids) are TLA+ strings.                             *)
(***************************************************************************)
EXTENDS Integers, Sequences, FiniteSets, TLC

VARIABLES
    applications_db, \* app.core.database.applications_db: list of ApplicationModel
    task,            \* one create_application coroutine per request: its
                     \* position, its locals, the POSTs it sent (sent), the
                     \* lookups that failed on it (faults), the status answered
    inserted,        \* history: every ApplicationModel as it was when appended
    response,        \* what the handler that ran in the last step answered
    text,            \* SpecParse: the requirements_content given to the parser
    parsed           \* SpecParse: what parse_requirements made of it

vars == <<applications_db, task, inserted, response, text, parsed>>

(***************************************************************************)
(* Bounds of the model.                                                    *)
(***************************************************************************)
MaxTextLen == 6      \* longest manifest text enumerated in SpecParse
MaxVulnLen == 3      \* longest vulnerabilities list kept in applications_db

(***************************************************************************)
(* Python str operations used by the parser.                               *)
(***************************************************************************)
Alphabet == {"a", "=", "#", " ", "\n"}

\* characters str.strip() removes and characters str.splitlines() breaks on
Whitespace == {" ", "\n"}
LineBreaks == {"\n"}

\* s[i:] for a 1-based start
Drop(s, n) == SubSeq(s, n + 1, Len(s))

RECURSIVE lstrip(_)
lstrip(s) ==
    IF s # <<>> /\ Head(s) \in Whitespace THEN lstrip(Tail(s)) ELSE s

RECURSIVE rstrip(_)
rstrip(s) ==
    IF s # <<>> /\ s[Len(s)] \in Whitespace
    THEN rstrip(SubSeq(s, 1, Len(s) - 1))
    ELSE s

\* str.strip()
strip(s) == rstrip(lstrip(s))

\* index of the first line break of s, 0 when there is none
FirstBreak(s) ==
    IF \E i \in 1..Len(s) : s[i] \in LineBreaks
    THEN CHOOSE i \in 1..Len(s) :
            /\ s[i] \in LineBreaks
            /\ \A j \in 1..(i - 1) : s[j] \notin LineBreaks
    ELSE 0

\* str.splitlines(): no trailing empty line, "" gives no line at all
RECURSIVE splitlines(_)
splitlines(s) ==
    IF s = <<>> THEN <<>>
    ELSE LET i == FirstBreak(s) IN
         IF i = 0 THEN <<s>>
         ELSE <<SubSeq(s, 1, i - 1)>> \o splitlines(Drop(s, i))

\* index of the first "==" of s, 0 when there is none
FirstSep(s) ==
    IF \E i \in 1..(Len(s) - 1) : s[i] = "=" /\ s[i + 1] = "="
    THEN CHOOSE i \in 1..(Len(s) - 1) :
            /\ s[i] = "=" /\ s[i + 1] = "="
            /\ \A j \in 1..(i - 1) : ~(s[j] = "=" /\ s[j + 1] = "=")
    ELSE 0

\* "==" in line
HasSep(s) == FirstSep(s) # 0

\* line.startswith("#")
StartsWithHash(s) == s # <<>> /\ Head(s) = "#"

\* line.split("=="): every piece between non-overlapping separators
RECURSIVE split(_)
split(s) ==
    LET i == FirstSep(s) IN
    IF i = 0 THEN <<s>>
    ELSE <<SubSeq(s, 1, i - 1)>> \o split(Drop(s, i + 1))

\* line.split("==", 1): what splitting on the first separator only would give
SplitFirstOnly(s) ==
    LET i == FirstSep(s) IN
    IF i = 0 THEN <<s>>
    ELSE <<SubSeq(s, 1, i - 1), Drop(s, i + 1)>>

\* Python None in a place that otherwise holds a character sequence
None == <<"None">>

(***************************************************************************)
(* app/services/parser.py                                                  *)
(***************************************************************************)
\* what one line adds to dependencies; raised is the ValueError of the
\* two-name unpacking "name, version = line.split('==')"
ParseLine(rawline) ==
    LET line == strip(rawline) IN
    IF line = <<>> \/ StartsWithHash(line)
    THEN [raised |-> FALSE, entries |-> <<>>]
    ELSE IF HasSep(line)
    THEN LET parts == split(line) IN
         IF Len(parts) = 2
         THEN [raised |-> FALSE,
               entries |-> <<[name |-> strip(parts[1]),
                              version |-> strip(parts[2])]>>]
         ELSE [raised |-> TRUE, entries |-> <<>>]
    ELSE [raised |-> FALSE,
          entries |-> <<[name |-> strip(line), version |-> None]>>]

RECURSIVE ParseLines(_, _)
ParseLines(lines, dependencies) ==
    IF lines = <<>>
    THEN [raised |-> FALSE, dependencies |-> dependencies]
    ELSE LET one == ParseLine(Head(lines)) IN
         IF one.raised
         THEN [raised |-> TRUE, dependencies |-> <<>>]
         ELSE ParseLines(Tail(lines), dependencies \o one.entries)

parse_requirements(requirements_content) ==
    ParseLines(splitlines(requirements_content), <<>>)

(***************************************************************************)
(* Values the handlers work on.                                            *)
(***************************************************************************)
Requests == {"r1", "r2"}

AppNames == {"A", "B"}
NoDescription == "<None>"                \* description left out of the form
Descriptions == {"shop"}
ContentTypes == {"text/plain", "application/json"}

NL == <<"\n">>
LineA1 == <<"a", "=", "=", "1">>
LineB == <<"b">>
LineComment == <<"#", " ", "c">>

ManifestMixed == LineA1 \o NL \o LineComment \o NL \o LineB \o NL
ManifestDup == <<"b", "=", "=">> \o NL \o LineA1 \o NL \o <<" ">> \o LineA1
ManifestTwoSeps == LineA1 \o <<"=", "=", "2">>               \* a==1==2

Manifests == {ManifestMixed, ManifestDup, ManifestTwoSeps}

\* an upload: bytes that decode as UTF-8 to content, or bytes that do not
Undecodable == [decodes |-> FALSE, content |-> <<>>]
Files == {[decodes |-> TRUE, content |-> m] : m \in Manifests} \cup {Undecodable}

\* JSON null inside a service answer
JsonNull == "<null>"

\* entries of a "vulns" array as the service sends them
VulnV1 == [id |-> "V-1"]
VulnV2 == [id |-> "V-2", summary |-> "s", details |-> "d"]
VulnNullId == [id |-> JsonNull, summary |-> "s"]

\* HTTP answers of the vulnerability service
Responses ==
    { [status_code |-> 200, json |-> [vulns |-> <<>>]],
      [status_code |-> 200, json |-> [vulns |-> <<VulnV1>>]],
      [status_code |-> 200, json |-> [vulns |-> <<VulnV2>>]],
      [status_code |-> 200, json |-> [vulns |-> <<VulnNullId>>]],
      [status_code |-> 200, json |-> [message |-> "ok"]],
      [status_code |-> 201, json |-> [vulns |-> <<VulnV1>>]],
      [status_code |-> 500, json |-> [message |-> "down"]] }

Unknown == <<"u", "n", "k", "n", "o", "w", "n">>

NoResponse == [op |-> "none"]

(***************************************************************************)
(* app/services/scanner.py                                                 *)
(***************************************************************************)
\* the check written as version == "": None would pass it
FalsyEmptyOnly(version) == version = <<>>

\* the check written as "version is None": "" would pass it
FalsyNoneOnly(version) == version = None

\* "not version": None and "" are both falsy
Falsy(version) == version = None \/ version = <<>>

\* the JSON payload of the POST for one package
Payload(package_name, version) ==
    [package |-> [name |-> package_name, ecosystem |-> "PyPI"],
     version |-> version]

\* what the function returns for an answer of the service: the "vulns" list
\* on status 200, a dict with the single key "error" otherwise
fetch_vulnerabilities_from_osv(resp, package_name, version) ==
    IF resp.status_code = 200
    THEN [type |-> "list",
          items |-> IF "vulns" \in DOMAIN resp.json THEN resp.json.vulns ELSE <<>>]
    ELSE [type |-> "dict",
          items |-> <<"error">>,
          error |-> [text |-> "Failed to query OSV API for ",
                     package |-> package_name, version |-> version]]

\* vuln.get(key, "N/A")
GetOr(vuln, key) == IF key \in DOMAIN vuln THEN vuln[key] ELSE "N/A"

VulnData(vuln) ==
    [id |-> GetOr(vuln, "id"),
     summary |-> GetOr(vuln, "summary"),
     details |-> GetOr(vuln, "details")]

\* "for vuln in vulns: vuln_data.append({...vuln.get(...)...})": iterating
\* a dict yields its keys, and a str key has no get (AttributeError)
ExtractVulns(vulnerability_info) ==
    IF vulnerability_info.type = "list"
    THEN [raised |-> FALSE,
          vuln_data |-> [i \in 1..Len(vulnerability_info.items) |->
                            VulnData(vulnerability_info.items[i])]]
    ELSE [raised |-> vulnerability_info.items # <<>>, vuln_data |-> <<>>]

\* the result appended for a dependency without a version
VersionlessResult(name) ==
    [package |-> name,
     version |-> Unknown,
     vulnerabilities |-> <<>>,
     error |-> "Version not specified in requirements.txt"]

\* the result appended for a dependency that was looked up
LookedUpResult(name, version, vuln_data) ==
    [package |-> name, version |-> version, vulnerabilities |-> vuln_data]

\* results.insert(0, ...): newest first
PrependResult(results, result) == <<result>> \o results

\* results.append(...)
AppendResult(results, result) == Append(results, result)

\* the for loop over dependencies from position t.idx on, up to the next
\* await of a lookup (pc "lookup", request sent) or to the return (pc "scanned")
RECURSIVE ScanLoop(_)
ScanLoop(t) ==
    IF t.idx > Len(t.dependencies)
    THEN [t EXCEPT !.pc = "scanned"]
    ELSE LET dependency == t.dependencies[t.idx] IN
         IF Falsy(dependency.version)
         THEN ScanLoop([t EXCEPT
                  !.results = AppendResult(@, VersionlessResult(dependency.name)),
                  !.idx = @ + 1])
         ELSE [t EXCEPT
                  !.pc = "lookup",
                  !.sent = Append(@, Payload(dependency.name, dependency.version))]

(***************************************************************************)
(* app/routers/v1/applications.py: create_application                      *)
(***************************************************************************)
\* app.core.database: the list starts empty
EmptyDb == <<>>

NoFile == [decodes |-> FALSE, content |-> <<>>]

\* no call of fetch_vulnerabilities_from_osv has ended yet
NoLookup == [answered |-> "none", status_code |-> 0, returned |-> "none"]

\* lookup: how the last call of fetch_vulnerabilities_from_osv ended, what
\* the service answered ("response" with its status, or "failure" of the
\* POST) and what the call gave back ("list", "dict", or "raised")
IdleTask ==
    [pc |-> "idle", name |-> "", description |-> NoDescription, file |-> NoFile,
     dependencies |-> <<>>, idx |-> 1, results |-> <<>>, sent |-> <<>>,
     faults |-> 0, lookup |-> NoLookup, status_code |-> 0]

\* the comparison made against the wrong field
NameExistsWrongField(db, name) == \E i \in 1..Len(db) : db[i].description = name

\* any(app.name == name for app in applications_db)
NameExists(db, name) == \E i \in 1..Len(db) : db[i].name = name

HttpError(r, code, detail) ==
    [op |-> "create_application", request |-> r, status_code |-> code,
     detail |-> detail]

\* VulnerabilityModel(id=..., summary=..., details=...): id must be a str,
\* summary and details may be None
VulnerabilityModelValid(vuln) == vuln.id # JsonNull

\* only the results with vulnerabilities become packages
BuildPackagesVulnerableOnly(scanned_dependencies) ==
    LET vulnerable(result) == result.vulnerabilities # <<>>
        kept == SelectSeq(scanned_dependencies, vulnerable)
    IN
    IF \E i \in 1..Len(kept) : \E j \in 1..Len(kept[i].vulnerabilities) :
          kept[i].vulnerabilities[j].id = JsonNull
    THEN [raised |-> TRUE, packages |-> <<>>]
    ELSE [raised |-> FALSE,
          packages |-> [i \in 1..Len(kept) |->
              [name |-> kept[i].package,
               version |-> kept[i].version,
               vulnerabilities |-> kept[i].vulnerabilities]]]

\* the packages built from the scan results; raised is pydantic's
\* ValidationError
BuildPackages(scanned_dependencies) ==
    IF \E i \in 1..Len(scanned_dependencies) :
          \E j \in 1..Len(scanned_dependencies[i].vulnerabilities) :
             ~VulnerabilityModelValid(scanned_dependencies[i].vulnerabilities[j])
    THEN [raised |-> TRUE, packages |-> <<>>]
    ELSE [raised |-> FALSE,
          packages |-> [i \in 1..Len(scanned_dependencies) |->
              [name |-> scanned_dependencies[i].package,
               version |-> scanned_dependencies[i].version,
               vulnerabilities |-> scanned_dependencies[i].vulnerabilities]]]

\* the application appended before its packages are validated
CompleteStoresFirst(db, r, t) ==
    LET built == BuildPackages(t.results)
        application == [name |-> t.name, description |-> t.description,
                        packages |-> built.packages]
    IN
    IF built.raised
    THEN [db |-> Append(db, application), stored |-> TRUE,
          response |-> HttpError(r, 500, "Error processing package data.")]
    ELSE [db |-> Append(db, application), stored |-> TRUE,
          response |-> [op |-> "create_application", request |-> r,
                        status_code |-> 200,
                        message |-> "Application created successfully.",
                        name |-> application.name,
                        description |-> application.description]]

\* what the handler does once the scan has returned: build the packages,
\* build the ApplicationModel, append it and answer
Complete(db, r, t) ==
    LET built == BuildPackages(t.results) IN
    IF built.raised
    THEN [db |-> db, stored |-> FALSE,
          response |-> HttpError(r, 500, "Error processing package data.")]
    ELSE LET application == [name |-> t.name, description |-> t.description,
                             packages |-> built.packages] IN
         [db |-> Append(db, application), stored |-> TRUE,
          response |-> [op |-> "create_application", request |-> r,
                        status_code |-> 200,
                        message |-> "Application created successfully.",
                        name |-> application.name,
                        description |-> application.description]]

\* the handler raises HTTPException: nothing is stored
Raise(r, t, code, detail) ==
    /\ task' = [task EXCEPT ![r] = [t EXCEPT !.pc = "done", !.status_code = code]]
    /\ response' = HttpError(r, code, detail)
    /\ UNCHANGED <<applications_db, inserted>>

\* the coroutine runs from the scan loop on until it awaits a lookup or
\* returns
Resume(r, t) ==
    LET s == ScanLoop(t) IN
    IF s.pc = "lookup"
    THEN /\ task' = [task EXCEPT ![r] = s]
         /\ response' = NoResponse
         /\ UNCHANGED <<applications_db, inserted>>
    ELSE LET end == Complete(applications_db, r, s) IN
         /\ task' = [task EXCEPT ![r] =
                [s EXCEPT !.pc = "done", !.status_code = end.response.status_code]]
         /\ applications_db' = end.db
         /\ inserted' = IF end.stored
                        THEN Append(inserted, end.db[Len(end.db)])
                        ELSE inserted
         /\ response' = end.response

\* the handler without its test of the name: the upload is read whatever
\* the store holds
CreateApplicationNameUnchecked(r, name, description, content_type, file) ==
    /\ task[r].pc = "idle"
    /\ LET t == [task[r] EXCEPT !.name = name, !.description = description,
                                !.file = file] IN
       IF content_type # "text/plain"
       THEN /\ task' = [task EXCEPT ![r] = [t EXCEPT !.pc = "done",
                                                     !.status_code = 400]]
            /\ response' = [op |-> "create_application", request |-> r,
                            status_code |-> 400,
                            detail |-> "Invalid file type. Only text files are allowed."]
            /\ UNCHANGED <<applications_db, inserted>>
       ELSE /\ task' = [task EXCEPT ![r] = [t EXCEPT !.pc = "read"]]
            /\ response' = NoResponse
            /\ UNCHANGED <<applications_db, inserted>>
    /\ UNCHANGED <<text, parsed>>

\* lines 31-52: the request arrives; name check, content type check, then
\* the coroutine awaits requirements_file.read()
CreateApplication(r, name, description, content_type, file) ==
    /\ task[r].pc = "idle"
    /\ LET t == [task[r] EXCEPT !.name = name, !.description = description,
                                !.file = file] IN
       IF NameExists(applications_db, name)
       THEN Raise(r, t, 400, "Application with name already exists.")
       ELSE IF content_type # "text/plain"
       THEN Raise(r, t, 400, "Invalid file type. Only text files are allowed.")
       ELSE /\ task' = [task EXCEPT ![r] = [t EXCEPT !.pc = "read"]]
            /\ response' = NoResponse
            /\ UNCHANGED <<applications_db, inserted>>
    /\ UNCHANGED <<text, parsed>>

\* lines 52-68: the read completes; decode, parse, start the scan loop
ReadRequirements(r) ==
    /\ task[r].pc = "read"
    /\ LET t == task[r] IN
       IF ~t.file.decodes
       THEN Raise(r, t, 500, "Error reading the file.")
       ELSE LET p == parse_requirements(t.file.content) IN
            IF p.raised
            THEN Raise(r, t, 500, "Error scanning dependencies.")
            ELSE Resume(r, [t EXCEPT !.dependencies = p.dependencies])
    /\ UNCHANGED <<text, parsed>>

\* scanner.py lines 25-85: the service answers the pending POST
LookupReturns(r, resp) ==
    /\ task[r].pc = "lookup"
    /\ LET t == task[r]
           dependency == t.dependencies[t.idx]
           vulnerability_info ==
               fetch_vulnerabilities_from_osv(resp, dependency.name,
                                              dependency.version)
           extracted == ExtractVulns(vulnerability_info)
           seen == [t EXCEPT !.faults = IF resp.status_code \in 200..299
                                        THEN @ ELSE @ + 1,
                             !.lookup = [answered |-> "response",
                                         status_code |-> resp.status_code,
                                         returned |-> vulnerability_info.type]]
       IN
       IF extracted.raised
       THEN Raise(r, seen, 500, "Error scanning dependencies.")
       ELSE Resume(r, [seen EXCEPT
                !.results = AppendResult(@,
                    LookedUpResult(dependency.name, dependency.version,
                                   extracted.vuln_data)),
                !.idx = @ + 1])
    /\ UNCHANGED <<text, parsed>>

\* scanner.py line 25: the POST fails (httpx raises), nothing catches it
\* before create_application's "except Exception"
LookupFails(r) ==
    /\ task[r].pc = "lookup"
    /\ Raise(r, [task[r] EXCEPT !.faults = @ + 1,
                                !.lookup = [answered |-> "failure",
                                            status_code |-> 0,
                                            returned |-> "raised"]],
             500, "Error scanning dependencies.")
    /\ UNCHANGED <<text, parsed>>

(***************************************************************************)
(* app/routers/v1/applications.py: the two application queries             *)
(***************************************************************************)
\* the comparison off by one: len(package.vulnerabilities) > 1
IsVulnerableMoreThanOne(vulnerabilities) == Len(vulnerabilities) > 1

\* len(package.vulnerabilities) > 0
IsVulnerable(vulnerabilities) == Len(vulnerabilities) > 0

\* any(len(package.vulnerabilities) > 0 for package in application.packages)
AnyVulnerable(application) ==
    \E j \in 1..Len(application.packages) :
        IsVulnerable(application.packages[j].vulnerabilities)

\* the handler without its test for an empty list
get_applications_unchecked(db) ==
    [op |-> "get_applications", status_code |-> 200,
     total_applications |-> Len(db),
     applications |-> [i \in 1..Len(db) |->
         [name |-> db[i].name, description |-> db[i].description,
          is_vulnerable |-> \E j \in 1..Len(db[i].packages) :
                               Len(db[i].packages[j].vulnerabilities) > 0]]]

get_applications(db) ==
    IF db = <<>>
    THEN [op |-> "get_applications", status_code |-> 404,
          detail |-> "No applications found."]
    ELSE [op |-> "get_applications", status_code |-> 200,
          total_applications |-> Len(db),
          applications |-> [i \in 1..Len(db) |->
              [name |-> db[i].name, description |-> db[i].description,
               is_vulnerable |-> AnyVulnerable(db[i])]]]

\* next((app for app in applications_db if app.name == name), None)
FirstNamed(db, name) ==
    CHOOSE i \in 1..Len(db) :
        /\ db[i].name = name
        /\ \A k \in 1..(i - 1) : db[k].name # name

get_application_dependencies(db, application_name) ==
    IF ~NameExists(db, application_name)
    THEN [op |-> "get_application_dependencies", arg |-> application_name,
          status_code |-> 404, detail |-> "Application not found."]
    ELSE LET application == db[FirstNamed(db, application_name)] IN
         [op |-> "get_application_dependencies", arg |-> application_name,
          status_code |-> 200,
          application_name |-> application.name,
          description |-> application.description,
          vulnerable_packages |-> [j \in 1..Len(application.packages) |->
              [name |-> application.packages[j].name,
               version |-> application.packages[j].version,
               is_vulnerable |->
                   IsVulnerable(application.packages[j].vulnerabilities)]]]

(***************************************************************************)
(* app/routers/v1/dependencies.py                                          *)
(***************************************************************************)
\* f"{package.name}=={package.version}"
PackageKey(package) == package.name \o <<"=", "=">> \o package.version

\* the (application, package) positions in the order the two loops visit them
RECURSIVE Positions(_, _)
Positions(db, i) ==
    IF i > Len(db) THEN <<>>
    ELSE [j \in 1..Len(db[i].packages) |-> <<i, j>>] \o Positions(db, i + 1)

\* index of key in the dict's insertion order, 0 when it is not a key
KeyIndex(keys, key) ==
    IF \E k \in 1..Len(keys) : keys[k] = key
    THEN CHOOSE k \in 1..Len(keys) : keys[k] = key
    ELSE 0

\* the body of the two loops.  The dict entry made for the first package
\* with a key holds that package's own vulnerabilities list (the same list
\* object, not a copy), so the extend for a later package with the same key
\* lengthens the list inside applications_db.  m.owners[k] is the position
\* of the package whose list entry k holds.
RECURSIVE MergeLoop(_, _)
MergeLoop(positions, m) ==
    IF positions = <<>> THEN m
    ELSE LET i == Head(positions)[1]
             j == Head(positions)[2]
             package == m.db[i].packages[j]
             k == KeyIndex(m.keys, PackageKey(package))
         IN
         IF k # 0
         THEN LET oi == m.owners[k][1]
                  oj == m.owners[k][2]
              IN MergeLoop(Tail(positions),
                     [m EXCEPT !.db[oi].packages[oj].vulnerabilities =
                                   @ \o package.vulnerabilities])
         ELSE MergeLoop(Tail(positions),
                  [m EXCEPT !.keys = Append(@, PackageKey(package)),
                            !.owners = Append(@, <<i, j>>)])

\* the flag taken from the list as it was when the key was first met, before
\* the later packages with the key extended it
get_dependencies_flag_at_first(db) ==
    IF db = <<>>
    THEN [db |-> db,
          response |-> [op |-> "get_dependencies", status_code |-> 404,
                        detail |-> "No applications found. No dependencies to display."]]
    ELSE LET m == MergeLoop(Positions(db, 1),
                            [db |-> db, keys |-> <<>>, owners |-> <<>>])
             dependencies_list ==
                 [k \in 1..Len(m.keys) |->
                     LET owner == db[m.owners[k][1]].packages[m.owners[k][2]] IN
                     [name |-> owner.name, version |-> owner.version,
                      is_vulnerable |-> Len(owner.vulnerabilities) > 0]]
         IN
         IF dependencies_list = <<>>
         THEN [db |-> m.db,
               response |-> [op |-> "get_dependencies", status_code |-> 404,
                             detail |-> "No dependencies found across applications."]]
         ELSE [db |-> m.db,
               response |-> [op |-> "get_dependencies", status_code |-> 200,
                             total_dependencies |-> Len(dependencies_list),
                             dependencies |-> dependencies_list]]

\* the handler: the answer and applications_db as the handler leaves it
get_dependencies(db) ==
    IF db = <<>>
    THEN [db |-> db,
          response |-> [op |-> "get_dependencies", status_code |-> 404,
                        detail |-> "No applications found. No dependencies to display."]]
    ELSE LET m == MergeLoop(Positions(db, 1),
                            [db |-> db, keys |-> <<>>, owners |-> <<>>])
             dependencies_list ==
                 [k \in 1..Len(m.keys) |->
                     LET owner == m.db[m.owners[k][1]].packages[m.owners[k][2]] IN
                     [name |-> owner.name, version |-> owner.version,
                      is_vulnerable |-> IsVulnerable(owner.vulnerabilities)]]
         IN
         IF dependencies_list = <<>>
         THEN [db |-> m.db,
               response |-> [op |-> "get_dependencies", status_code |-> 404,
                             detail |-> "No dependencies found across applications."]]
         ELSE [db |-> m.db,
               response |-> [op |-> "get_dependencies", status_code |-> 200,
                             total_dependencies |-> Len(dependencies_list),
                             dependencies |-> dependencies_list]]

\* the usage and vulnerabilities lists the two loops of get_dependency collect
RECURSIVE UsageLoop(_, _, _, _)
UsageLoop(db, positions, name, version) ==
    IF positions = <<>> THEN [usage |-> <<>>, vulnerabilities |-> <<>>]
    ELSE LET i == Head(positions)[1]
             package == db[i].packages[Head(positions)[2]]
             rest == UsageLoop(db, Tail(positions), name, version)
         IN
         IF package.name = name /\ package.version = version
         THEN [usage |-> <<[application_name |-> db[i].name,
                            application_description |-> db[i].description]>>
                         \o rest.usage,
               vulnerabilities |-> package.vulnerabilities \o rest.vulnerabilities]
         ELSE rest

\* the 404 decided on the vulnerabilities instead of the usage
get_dependency_by_vulnerabilities(db, name, version) ==
    LET found == UsageLoop(db, Positions(db, 1), name, version) IN
    IF found.vulnerabilities = <<>>
    THEN [op |-> "get_dependency", name |-> name, version |-> version,
          status_code |-> 404, detail |-> "Dependency not found in any application."]
    ELSE [op |-> "get_dependency", name |-> name, version |-> version,
          status_code |-> 200,
          dependency |-> [name |-> name, version |-> version,
                          is_vulnerable |-> Len(found.vulnerabilities) > 0,
                          vulnerabilities |-> found.vulnerabilities],
          usage |-> found.usage]

get_dependency(db, name, version) ==
    LET found == UsageLoop(db, Positions(db, 1), name, version) IN
    IF found.usage = <<>>
    THEN [op |-> "get_dependency", name |-> name, version |-> version,
          status_code |-> 404, detail |-> "Dependency not found in any application."]
    ELSE [op |-> "get_dependency", name |-> name, version |-> version,
          status_code |-> 200,
          dependency |-> [name |-> name, version |-> version,
                          is_vulnerable |-> IsVulnerable(found.vulnerabilities),
                          vulnerabilities |-> found.vulnerabilities],
          usage |-> found.usage]

\* the longest vulnerabilities list in db
LongestVulns(db) ==
    LET lens == {Len(db[p[1]].packages[p[2]].vulnerabilities) :
                    p \in {Positions(db, 1)[n] : n \in 1..Len(Positions(db, 1))}}
    IN IF lens = {} THEN 0 ELSE CHOOSE n \in lens : \A o \in lens : o <= n

QueryNames == {<<"a">>, <<"b">>}
QueryVersions == {<<"1">>, Unknown}

GetApplications ==
    /\ response' = get_applications(applications_db)
    /\ UNCHANGED <<applications_db, task, inserted, text, parsed>>

GetApplicationDependencies(application_name) ==
    /\ response' = get_application_dependencies(applications_db, application_name)
    /\ UNCHANGED <<applications_db, task, inserted, text, parsed>>

GetDependencies ==
    LET out == get_dependencies(applications_db) IN
    /\ LongestVulns(out.db) <= MaxVulnLen
    /\ applications_db' = out.db
    /\ response' = out.response
    /\ UNCHANGED <<task, inserted, text, parsed>>

GetDependency(name, version) ==
    /\ response' = get_dependency(applications_db, name, version)
    /\ UNCHANGED <<applications_db, task, inserted, text, parsed>>

(***************************************************************************)
(* The service: requests in flight and queries, interleaved at the awaits. *)
(***************************************************************************)
NotParsed == [raised |-> FALSE, dependencies |-> <<>>, done |-> FALSE]

Init ==
    /\ applications_db = EmptyDb
    /\ task = [r \in Requests |-> IdleTask]
    /\ inserted = <<>>
    /\ response = NoResponse
    /\ text = <<>>
    /\ parsed = NotParsed

Next ==
    \/ \E r \in Requests, name \in AppNames, description \in Descriptions,
          content_type \in ContentTypes, file \in Files :
          CreateApplication(r, name, description, content_type, file)
    \/ \E r \in Requests : ReadRequirements(r)
    \/ \E r \in Requests, resp \in Responses : LookupReturns(r, resp)
    \/ \E r \in Requests : LookupFails(r)
    \/ GetApplications
    \/ \E application_name \in AppNames : GetApplicationDependencies(application_name)
    \/ GetDependencies
    \/ \E name \in QueryNames, version \in QueryVersions : GetDependency(name, version)

Spec == Init /\ [][Next]_vars

(***************************************************************************)
(* The parser on its own, over every text of the alphabet up to MaxTextLen.*)
(***************************************************************************)
RECURSIVE SeqsUpTo(_, _)
SeqsUpTo(S, n) ==
    IF n = 0 THEN {<<>>}
    ELSE LET shorter == SeqsUpTo(S, n - 1) IN
         shorter \cup {Append(q, x) : q \in {p \in shorter : Len(p) = n - 1}, x \in S}

Texts == SeqsUpTo(Alphabet, MaxTextLen)

InitParse ==
    /\ applications_db = EmptyDb
    /\ task = [r \in Requests |-> IdleTask]
    /\ inserted = <<>>
    /\ response = NoResponse
    /\ text \in Texts
    /\ parsed = NotParsed

Parse ==
    /\ ~parsed.done
    /\ LET p == parse_requirements(text) IN
          parsed' = [raised |-> p.raised, dependencies |-> p.dependencies,
                     done |-> TRUE]
    /\ UNCHANGED <<applications_db, task, inserted, response, text>>

NextParse == Parse

SpecParse == InitParse /\ [][NextParse]_vars

(***************************************************************************)
(* The service fed with manifests whose names and versions hold "=" next   *)
(* to the separator.                                                       *)
(***************************************************************************)
ManifestEqName == <<"a", "=", " ", "=", "=", "1">>            \* a= ==1
ManifestEqVersion == <<"a", "=", "=", "=", "1">>              \* a===1

KeyFiles == {[decodes |-> TRUE, content |-> m] :
                m \in {ManifestEqName, ManifestEqVersion}}

KeyQueryNames == {<<"a">>, <<"a", "=">>}
KeyQueryVersions == {<<"1">>, <<"=", "1">>}

NextKeys ==
    \/ \E r \in Requests, name \in AppNames, description \in Descriptions,
          content_type \in ContentTypes, file \in KeyFiles :
          CreateApplication(r, name, description, content_type, file)
    \/ \E r \in Requests : ReadRequirements(r)
    \/ \E r \in Requests, resp \in Responses : LookupReturns(r, resp)
    \/ \E r \in Requests : LookupFails(r)
    \/ GetApplications
    \/ \E application_name \in AppNames : GetApplicationDependencies(application_name)
    \/ GetDependencies
    \/ \E name \in KeyQueryNames, version \in KeyQueryVersions :
          GetDependency(name, version)

SpecKeys == Init /\ [][NextKeys]_vars

(***************************************************************************)
(* Properties.                                                             *)
(***************************************************************************)
\* the lines of a text that are neither blank nor comments, stripped
IsContentLine(line) == line # <<>> /\ ~StartsWithHash(line)

ContentLines(requirements_content) ==
    LET lines == splitlines(requirements_content) IN
    SelectSeq([i \in 1..Len(lines) |-> strip(lines[i])], IsContentLine)

\* number of "==" separators line.split meets
Separators(line) == Len(split(line)) - 1

\* C1: under every interleaving of concurrent create requests the store
\* never holds two applications with the same name.
C1_UniqueNames ==
    \A i, j \in 1..Len(applications_db) :
        applications_db[i].name = applications_db[j].name => i = j

\* C2: a request that met a failed lookup (non-success status or failed
\* network call) still succeeds: the scan gave one result per declared
\* dependency and an application with one package per declared dependency
\* is stored.
C2_FaultIsolation ==
    \A r \in Requests :
        (task[r].pc = "done" /\ task[r].faults > 0) =>
            /\ task[r].status_code = 200
            /\ Len(task[r].results) = Len(task[r].dependencies)
            /\ \E i \in 1..Len(applications_db) :
                  /\ applications_db[i].name = task[r].name
                  /\ Len(applications_db[i].packages) = Len(task[r].dependencies)

\* C3: every stored application is equal (name, description, packages and
\* each package's vulnerabilities) to what it was when it was inserted.
C3_StoredAsInserted == applications_db = inserted

\* the positions in db of the applications that declare (name, version)
Declaring(db, name, version) ==
    {i \in 1..Len(db) :
        \E j \in 1..Len(db[i].packages) :
            db[i].packages[j].name = name /\ db[i].packages[j].version = version}

\* C4: for a key declared by several applications, get_dependency answers
\* with every declaring application in store order and with the
\* concatenation of the matching packages' vulnerabilities as scanned.
C4_MergedAsScanned ==
    (/\ response.op = "get_dependency"
     /\ Cardinality(Declaring(inserted, response.name, response.version)) >= 2) =>
        LET scanned == UsageLoop(inserted, Positions(inserted, 1),
                                 response.name, response.version) IN
        /\ response.status_code = 200
        /\ response.dependency.vulnerabilities = scanned.vulnerabilities
        /\ response.usage = scanned.usage

\* C5: a create request whose name is already in the store is answered with
\* the conflict error and leaves the store exactly as it was.
C5_ConflictLeavesStore ==
    [][\A r \in Requests :
          (/\ task[r].pc = "idle"
           /\ task'[r].pc # "idle"
           /\ \E i \in 1..Len(applications_db) :
                 applications_db[i].name = task'[r].name)
          => /\ task'[r].pc = "done"
             /\ response'.op = "create_application"
             /\ response'.request = r
             /\ response'.status_code = 400
             /\ response'.detail = "Application with name already exists."
             /\ applications_db' = applications_db]_vars

C5_Witness ==
    /\ response.op = "create_application"
    /\ response.status_code = 400
    /\ response.detail = "Application with name already exists."
    /\ applications_db # <<>>

\* the complete application of request r: its name, its description, one
\* package per declared dependency in declaration order
IsCompleteFor(application, t) ==
    /\ application.name = t.name
    /\ application.description = t.description
    /\ Len(application.packages) = Len(t.dependencies)
    /\ \A k \in 1..Len(t.dependencies) :
          application.packages[k].name = t.dependencies[k].name

\* C6: every step of a create request either ends it in success with exactly
\* one complete application appended, or leaves the store unchanged; the
\* store never grows except by a request ending in success.
C6_AllOrNothing ==
    [][/\ \A r \in Requests :
             task'[r] # task[r] =>
                IF task'[r].pc = "done" /\ task'[r].status_code = 200
                THEN /\ Len(applications_db') = Len(applications_db) + 1
                     /\ SubSeq(applications_db', 1, Len(applications_db))
                           = applications_db
                     /\ IsCompleteFor(applications_db'[Len(applications_db')],
                                      task'[r])
                ELSE applications_db' = applications_db
       /\ Len(applications_db') # Len(applications_db) =>
             \E r \in Requests :
                 /\ task[r].pc # "done"
                 /\ task'[r].pc = "done"
                 /\ task'[r].status_code = 200]_vars

C6_Witness ==
    \E r, q \in Requests :
        /\ task[r].pc = "done" /\ task[r].status_code = 200
        /\ task[q].pc = "done" /\ task[q].status_code = 500
        /\ task[q].results # <<>>
        /\ Len(applications_db) = 1

\* C7: when the scan has returned, there is exactly one result per declared
\* dependency and the i-th result has the i-th dependency's name; while it
\* runs, the results so far are the results of the first dependencies.
C7_ResultsInDeclarationOrder ==
    \A r \in Requests :
        LET t == task[r] IN
        /\ Len(t.results) <= Len(t.dependencies)
        /\ \A i \in 1..Len(t.results) :
              t.results[i].package = t.dependencies[i].name
        /\ (t.pc = "done" /\ t.idx > Len(t.dependencies)) =>
              Len(t.results) = Len(t.dependencies)

C7_Witness ==
    \E r \in Requests :
        LET t == task[r] IN
        /\ t.pc = "done" /\ t.status_code = 200
        /\ Len(t.results) = 3
        /\ Falsy(t.dependencies[1].version)
        /\ ~Falsy(t.dependencies[2].version)
        /\ t.results[1].package # t.results[2].package

\* the result C8 describes for a dependency without a version, with the
\* error text given as errorText
VersionlessOutcome(t, errorText) ==
    \A i \in 1..Len(t.results) :
        t.dependencies[i].version = None =>
            t.results[i] = [package |-> t.dependencies[i].name,
                            version |-> Unknown,
                            vulnerabilities |-> <<>>,
                            error |-> errorText]

\* no POST was sent for a dependency without a version: every POST carries
\* the name and the version of a dependency that has one
NoLookupWithoutVersion(t) ==
    /\ \A k \in 1..Len(t.sent) :
          /\ t.sent[k].version # None
          /\ \E i \in 1..Len(t.dependencies) :
                /\ t.dependencies[i].version # None
                /\ t.sent[k].package.name = t.dependencies[i].name
                /\ t.sent[k].version = t.dependencies[i].version
    /\ Len(t.sent) <=
          Cardinality({i \in 1..Len(t.dependencies) :
                          t.dependencies[i].version # None})

\* C8 (as stated): for a dependency whose version is absent no lookup is
\* sent and the result has version "unknown", no vulnerabilities and the
\* error "version not specified".
C8_VersionlessAsStated ==
    \A r \in Requests :
        /\ NoLookupWithoutVersion(task[r])
        /\ VersionlessOutcome(task[r], "version not specified")

\* C8 (amended): the same, the error text being
\* "Version not specified in requirements.txt".
C8_Versionless ==
    \A r \in Requests :
        /\ NoLookupWithoutVersion(task[r])
        /\ VersionlessOutcome(task[r], "Version not specified in requirements.txt")

C8_Witness ==
    \E r \in Requests :
        LET t == task[r] IN
        /\ t.pc = "done" /\ t.status_code = 200
        /\ \E i \in 1..Len(t.results) :
              /\ t.dependencies[i].version = None
              /\ t.results[i].version = Unknown
        /\ t.sent # <<>>

\* C9: parse_requirements never fails, and a line with "==" is split on the
\* first "==" only: the name is the stripped text before it, the version
\* the stripped remainder, also when the line holds two or more "==".
C9_NeverFailsSplitsOnFirst ==
    parsed.done =>
        /\ ~parsed.raised
        /\ LET lines == ContentLines(text) IN
           \A i \in 1..Len(lines) :
               (i <= Len(parsed.dependencies) /\ Separators(lines[i]) >= 2) =>
                   /\ parsed.dependencies[i].name
                         = strip(SplitFirstOnly(lines[i])[1])
                   /\ parsed.dependencies[i].version
                         = strip(SplitFirstOnly(lines[i])[2])

\* C10: blank and comment lines give no entry, every other line gives
\* exactly one entry, in line order; a line with one "==" gives the stripped
\* name and stripped version, a line without "==" the stripped line and no
\* version.
C10_OneEntryPerContentLine ==
    parsed.done =>
        LET lines == ContentLines(text) IN
        /\ Len(parsed.dependencies) = Len(lines)
        /\ \A i \in 1..Len(lines) :
              IF Separators(lines[i]) = 0
              THEN parsed.dependencies[i] = [name |-> lines[i], version |-> None]
              ELSE Separators(lines[i]) = 1 =>
                      parsed.dependencies[i] =
                          [name |-> strip(SplitFirstOnly(lines[i])[1]),
                           version |-> strip(SplitFirstOnly(lines[i])[2])]


\* the packages of the stored application the query names
NamedPackages(application_name) ==
    LET first == CHOOSE i \in 1..Len(applications_db) :
                    /\ applications_db[i].name = application_name
                    /\ \A k \in 1..(i - 1) :
                          applications_db[k].name # application_name
    IN applications_db[first].packages

HasVulnerabilities(package) == package.vulnerabilities # <<>>

\* C11: the answer of get_application_dependencies for a stored application
\* lists in vulnerable_packages exactly the application's packages that have
\* at least one vulnerability, in order; a package whose vulnerabilities are
\* empty is not listed.
C11_OnlyVulnerableListed ==
    (response.op = "get_application_dependencies" /\ response.status_code = 200)
    => LET listed == response.vulnerable_packages
           expected == SelectSeq(NamedPackages(response.arg), HasVulnerabilities)
       IN
       /\ \A j \in 1..Len(listed) : listed[j].is_vulnerable
       /\ Len(listed) = Len(expected)
       /\ \A j \in 1..Len(listed) :
             /\ listed[j].name = expected[j].name
             /\ listed[j].version = expected[j].version


\* C12: when get_dependencies answers twice in a row, with no other request
\* served in between, the second answer is the first one: the same records
\* in the same order with the same is_vulnerable flags and the same total.
C12_ListTwiceSameAnswer ==
    [][(response.op = "get_dependencies" /\ response'.op = "get_dependencies")
          => response' = response]_vars

\* a single stored application declared a==1 twice; the scan found nothing
\* for the first and something for the second, and two calls in a row have
\* each lengthened the first one's list
C12_Witness ==
    /\ response.op = "get_dependencies"
    /\ response.status_code = 200
    /\ Len(applications_db) = 1
    /\ Len(inserted[1].packages) = 3
    /\ inserted[1].packages[2].vulnerabilities = <<>>
    /\ Len(inserted[1].packages[3].vulnerabilities) = 1
    /\ Len(applications_db[1].packages[2].vulnerabilities) = 2


\* C13: in every answer the flag is computed from vulnerabilities: an
\* application of get_applications is flagged exactly when one of its stored
\* packages has a vulnerability; a package of get_application_dependencies
\* exactly when its stored list is non-empty; a record of get_dependencies
\* exactly when some stored package with its name and version has one; the
\* dependency of get_dependency exactly when the list it carries is non-empty.
C13_FlagDerived ==
    /\ (response.op = "get_applications" /\ response.status_code = 200)
       => /\ Len(response.applications) = Len(applications_db)
          /\ \A i \in 1..Len(applications_db) :
                response.applications[i].is_vulnerable
                <=> \E j \in 1..Len(applications_db[i].packages) :
                       applications_db[i].packages[j].vulnerabilities # <<>>
    /\ (response.op = "get_application_dependencies" /\ response.status_code = 200)
       => LET packages == NamedPackages(response.arg) IN
          /\ Len(response.vulnerable_packages) = Len(packages)
          /\ \A j \in 1..Len(packages) :
                response.vulnerable_packages[j].is_vulnerable
                <=> packages[j].vulnerabilities # <<>>
    /\ (response.op = "get_dependencies" /\ response.status_code = 200)
       => \A k \in 1..Len(response.dependencies) :
             response.dependencies[k].is_vulnerable
             <=> \E i \in 1..Len(applications_db) :
                    \E j \in 1..Len(applications_db[i].packages) :
                       LET package == applications_db[i].packages[j] IN
                       /\ package.name = response.dependencies[k].name
                       /\ package.version = response.dependencies[k].version
                       /\ package.vulnerabilities # <<>>
    /\ (response.op = "get_dependency" /\ response.status_code = 200)
       => (response.dependency.is_vulnerable
           <=> response.dependency.vulnerabilities # <<>>)

\* get_applications has answered for a store with a vulnerable application
\* and one that is not
C13_Witness ==
    /\ response.op = "get_applications"
    /\ response.status_code = 200
    /\ \E i, k \in 1..Len(response.applications) :
          /\ response.applications[i].is_vulnerable
          /\ ~response.applications[k].is_vulnerable


\* C14 as stated: asked while the store holds no application,
\* get_applications and get_dependencies answer with an empty listing and
\* report no error.
C14_EmptyListingAsStated ==
    (response.op \in {"get_applications", "get_dependencies"}
        /\ applications_db = <<>>)
    => response.status_code = 200

\* C14: asked while the store holds no application, get_applications and
\* get_dependencies answer 404 with a "No applications found." detail and
\* no listing; the answer is never a server fault (500).
C14_EmptyStoreNotFound ==
    /\ (response.op = "get_applications" /\ applications_db = <<>>)
       => /\ response.status_code = 404
          /\ response.detail = "No applications found."
          /\ "applications" \notin DOMAIN response
    /\ (response.op = "get_dependencies" /\ applications_db = <<>>)
       => /\ response.status_code = 404
          /\ response.detail = "No applications found. No dependencies to display."
          /\ "dependencies" \notin DOMAIN response

\* both listing queries are answered while nothing is stored, here
\* get_applications after a create request was refused
C14_Witness ==
    /\ response.op = "get_applications"
    /\ applications_db = <<>>
    /\ \E r \in Requests : task[r].pc = "done"


\* C15: a call of fetch_vulnerabilities_from_osv always gives a value back
\* and never raises: the list of vulnerabilities for every answer with a 2xx
\* status, an error value for every other status and for a POST that failed.
C15_LookupAlwaysReturns ==
    \A r \in Requests :
        LET l == task[r].lookup IN
        /\ l.returned # "raised"
        /\ l.answered = "response"
           => IF l.status_code \in 200..299
              THEN l.returned = "list"
              ELSE l.returned = "dict"
        /\ l.answered = "failure" => l.returned = "dict"


\* the distinct (name, version) pairs of the stored packages, in the order
\* the applications and their packages first show them
RECURSIVE FirstMet(_, _)
FirstMet(packages, met) ==
    IF packages = <<>> THEN met
    ELSE LET pair == [name |-> Head(packages).name,
                      version |-> Head(packages).version] IN
         IF \E k \in 1..Len(met) : met[k] = pair
         THEN FirstMet(Tail(packages), met)
         ELSE FirstMet(Tail(packages), Append(met, pair))

RECURSIVE AllPackages(_, _)
AllPackages(db, i) ==
    IF i > Len(db) THEN <<>> ELSE db[i].packages \o AllPackages(db, i + 1)

\* C16: get_dependencies answers with exactly one record for each distinct
\* (name, version) pair among the stored packages, in the order the pairs
\* are first met, and total_dependencies is the number of distinct pairs.
C16_OneRecordPerPair ==
    (response.op = "get_dependencies" /\ response.status_code = 200)
    => LET pairs == FirstMet(AllPackages(applications_db, 1), <<>>) IN
       /\ response.total_dependencies = Len(pairs)
       /\ Len(response.dependencies) = Len(pairs)
       /\ \A k \in 1..Len(response.dependencies) :
             /\ response.dependencies[k].name = pairs[k].name
             /\ response.dependencies[k].version = pairs[k].version


\* C17: get_dependency(name, version) answers 404 exactly when no stored
\* package has this name and this version; otherwise it answers 200 with
\* one usage entry for each stored package that has them, so at least one.
C17_NotFoundIffUndeclared ==
    response.op = "get_dependency"
    => LET stored == UNION {{<<i, j>> : j \in 1..Len(applications_db[i].packages)} :
                               i \in 1..Len(applications_db)}
           users == {p \in stored :
                        /\ applications_db[p[1]].packages[p[2]].name = response.name
                        /\ applications_db[p[1]].packages[p[2]].version
                              = response.version}
       IN
       /\ response.status_code = 404 <=> users = {}
       /\ response.status_code = 200 <=> users # {}
       /\ response.status_code = 200
          => /\ response.usage # <<>>
             /\ Len(response.usage) = Cardinality(users)
             /\ \A k \in 1..Len(response.usage) :
                   \E p \in users :
                      applications_db[p[1]].name = response.usage[k].application_name

\* both answers happen for a store that is not empty: here the 404 for a
\* name that is stored with another version
C17_Witness ==
    /\ response.op = "get_dependency"
    /\ response.status_code = 404
    /\ \E i \in 1..Len(applications_db) :
          \E j \in 1..Len(applications_db[i].packages) :
             /\ applications_db[i].packages[j].name = response.name
             /\ applications_db[i].packages[j].version # response.version


\* application holds what the request t declared: as many packages as its
\* manifest has content lines, package k with the name of dependency k and
\* with its version, "unknown" where the line gave none
HoldsManifestOf(application, t) ==
    /\ t.file.decodes
    /\ application.name = t.name
    /\ Len(application.packages) = Len(ContentLines(t.file.content))
    /\ Len(application.packages) = Len(t.dependencies)
    /\ \A k \in 1..Len(t.dependencies) :
          /\ application.packages[k].name = t.dependencies[k].name
          /\ application.packages[k].version
                = IF t.dependencies[k].version \in {None, <<>>}
                  THEN Unknown ELSE t.dependencies[k].version

\* C18: in every reachable state, whatever the interleaving of create
\* requests and queries, each application in the store belongs to a create
\* request of its own that has ended in success, and holds one package for
\* each dependency its manifest declares, in the order declared: no
\* application of a request still scanning is in the store.
C18_StoredAreComplete ==
    \E owner \in [1..Len(applications_db) -> Requests] :
        /\ \A i, k \in 1..Len(applications_db) : owner[i] = owner[k] => i = k
        /\ \A i \in 1..Len(applications_db) :
              /\ task[owner[i]].pc = "done"
              /\ task[owner[i]].status_code = 200
              /\ HoldsManifestOf(applications_db[i], task[owner[i]])

\* a query is answered from a store that holds an application while another
\* request is in the middle of its scan, one result in and a lookup pending
C18_Witness ==
    /\ response.op \in {"get_applications", "get_dependencies"}
    /\ response.status_code = 200
    /\ \E r \in Requests :
          /\ task[r].pc = "lookup"
          /\ task[r].results # <<>>


\* C19: a create request that arrives when an application with its name is
\* already stored ends at once, refused with 400: its upload is not read or
\* parsed and no request goes to the vulnerability service for it, then or
\* later.
C19_ConflictBeforeScan ==
    [][\A r \in Requests :
          /\ (/\ task[r].pc = "idle"
              /\ task'[r].pc # "idle"
              /\ \E i \in 1..Len(applications_db) :
                    applications_db[i].name = task'[r].name)
             => /\ task'[r].pc = "done"
                /\ task'[r].status_code = 400
                /\ task'[r].sent = <<>>
                /\ task'[r].dependencies = <<>>
                /\ task'[r].results = <<>>
                /\ task'[r].lookup = NoLookup
          /\ task[r].pc = "done" => task'[r] = task[r]]_vars

\* a request with a plain-text manifest that declares versions was refused
\* for its name, after the other request had stored that name
C19_Witness ==
    \E r, q \in Requests :
        /\ response = HttpError(r, 400, "Application with name already exists.")
        /\ task[r].pc = "done"
        /\ task[r].file.decodes
        /\ task[r].file.content # <<>>
        /\ task[r].sent = <<>>
        /\ task[q].status_code = 200
        /\ task[q].name = task[r].name
        /\ task[q].sent # <<>>

\* C20: a manifest line whose version part is empty after stripping, such
\* as "b==", is treated as a line without version: no request to the
\* service carries its name, and its result and the package stored for it
\* have version "unknown" and no vulnerabilities.
C20_EmptyVersionAsVersionless ==
    \A r \in Requests :
        LET t == task[r] IN
        \A k \in 1..Len(t.dependencies) :
            t.dependencies[k].version = <<>>
            => /\ \A n \in 1..Len(t.sent) :
                     t.sent[n] # Payload(t.dependencies[k].name, <<>>)
               /\ (t.pc = "lookup" => t.idx # k)
               /\ k <= Len(t.results)
                  => /\ t.results[k].package = t.dependencies[k].name
                     /\ t.results[k].version = Unknown
                     /\ t.results[k].vulnerabilities = <<>>
               /\ (t.pc = "done" /\ t.status_code = 200)
                  => \E i \in 1..Len(inserted) :
                        /\ inserted[i].name = t.name
                        /\ inserted[i].packages[k].name = t.dependencies[k].name
                        /\ inserted[i].packages[k].version = Unknown
                        /\ inserted[i].packages[k].vulnerabilities = <<>>

\* an application whose manifest starts with "b==" has been stored
C20_Witness ==
    \E r \in Requests :
        /\ task[r].pc = "done"
        /\ task[r].status_code = 200
        /\ task[r].dependencies # <<>>
        /\ task[r].dependencies[1].version = <<>>
        /\ task[r].results[1].version = Unknown
        /\ Len(task[r].sent) = 2

====
